---- MODULE Spec2Model ----
(***************************************************************************)
(* MRZ decoding pipeline of monday-passport-ocr (src/index.js).            *)
(*                                                                         *)
(* A JavaScript string is modelled as a sequence of one-character strings, *)
(* so that split, trim, replace, padEnd, substring and the regular         *)
(* expressions are computed character by character as the code does.       *)
(***************************************************************************)
EXTENDS Integers, Sequences, FiniteSets, TLC

\* ------------------------------------------------------------------------
\* Characters
\* ------------------------------------------------------------------------
UpperSeq == <<"A","B","C","D","E","F","G","H","I","J","K","L","M",
              "N","O","P","Q","R","S","T","U","V","W","X","Y","Z">>
LowerSeq == <<"a","b","c","d","e","f","g","h","i","j","k","l","m",
              "n","o","p","q","r","s","t","u","v","w","x","y","z">>
DigitSeq == <<"0","1","2","3","4","5","6","7","8","9">>

Upper  == {UpperSeq[i] : i \in 1..26}
Lower  == {LowerSeq[i] : i \in 1..26}
Digits == {DigitSeq[i] : i \in 1..10}

\* /\s/ : the white-space characters that occur in the modelled texts
WhiteSpace == {" ", "\t", "\r", "\n"}

\* [A-Z0-9<] with the i flag (line 192) and without it (lines 201-202)
IsMrzCharI(c) == c \in Upper \/ c \in Lower \/ c \in Digits \/ c = "<"
IsMrzChar(c)  == c \in Upper \/ c \in Digits \/ c = "<"

\* String.prototype.toUpperCase on one character
ToUpperChar(c) ==
  IF c \in Lower THEN UpperSeq[CHOOSE i \in 1..26 : LowerSeq[i] = c] ELSE c

toUpperCase(s) == [i \in 1..Len(s) |-> ToUpperChar(s[i])]

\* ------------------------------------------------------------------------
\* String helpers (JavaScript semantics)
\* ------------------------------------------------------------------------
Min(a, b) == IF a < b THEN a ELSE b
Max(a, b) == IF a > b THEN a ELSE b

\* s.substring(a, b), 0-indexed, half-open, clamped to the string
Substring(s, a, b) ==
  LET lo == Min(Max(a, 0), Len(s))
      hi == Min(Max(b, 0), Len(s))
  IN  SubSeq(s, Min(lo, hi) + 1, Max(lo, hi))

\* the string s with its 0-indexed position p holding c
SetCharAt(s, p, c) == [i \in 1..Len(s) |-> IF i = p + 1 THEN c ELSE s[i]]

\* s.substring(a)
SubstringFrom(s, a) == Substring(s, a, Len(s))

\* c.repeat(n) for n >= 0 (a negative count throws: see cleanMRZLine1)
Repeat(c, n) == [i \in 1..n |-> c]

\* s.padEnd(n, c): never shortens
padEnd(s, n, c) == IF Len(s) >= n THEN s ELSE s \o Repeat(c, n - Len(s))

\* s.padStart(n, c)
padStart(s, n, c) == IF Len(s) >= n THEN s ELSE Repeat(c, n - Len(s)) \o s

\* s.replace(/[^keep]/g, ""): the characters satisfying Keep, in order
KeepOnly(s, Keep(_)) == SelectSeq(s, Keep)

NotWhite(c) == c \notin WhiteSpace

\* s.replace(/\s/g, "")
RemoveWhiteSpace(s) == KeepOnly(s, NotWhite)

\* s.trim(): from the first to the last character that is not white space
trim(s) ==
  LET keep == {i \in 1..Len(s) : s[i] \notin WhiteSpace}
  IN  IF keep = {} THEN <<>>
      ELSE SubSeq(s, CHOOSE i \in keep : \A j \in keep : i <= j,
                     CHOOSE i \in keep : \A j \in keep : j <= i)

\* s.split("\n"): the pieces between consecutive newlines, always at least
\* one (possibly empty) piece
NewlinesUpTo(s, p) == Cardinality({j \in 1..p : s[j] = "\n"})

\* position of the k-th newline; 0 for k = 0 and Len(s) + 1 past the last
NewlineAt(s, k) ==
  IF k = 0 THEN 0
  ELSE IF k > NewlinesUpTo(s, Len(s)) THEN Len(s) + 1
  ELSE CHOOSE p \in 1..Len(s) : s[p] = "\n" /\ NewlinesUpTo(s, p) = k

split(s) ==
  [k \in 1..(NewlinesUpTo(s, Len(s)) + 1) |->
     SubSeq(s, NewlineAt(s, k - 1) + 1, NewlineAt(s, k) - 1)]

\* array.filter(P)
FilterSeq(a, P(_)) == SelectSeq(a, P)

\* array.join(sep)
RECURSIVE Join(_, _)
Join(a, sep) ==
  IF a = <<>> THEN <<>>
  ELSE IF Len(a) = 1 THEN a[1]
  ELSE a[1] \o sep \o Join(Tail(a), sep)

\* parseInt(s, 10) on a string of digits
DigitVal(c) == (CHOOSE i \in 1..10 : DigitSeq[i] = c) - 1

RECURSIVE ParseIntFrom(_, _)
ParseIntFrom(s, acc) ==
  IF s = <<>> THEN acc ELSE ParseIntFrom(Tail(s), 10 * acc + DigitVal(Head(s)))

parseInt(s) == ParseIntFrom(s, 0)

\* String(n) for n >= 0
RECURSIVE NumToString(_)
NumToString(n) ==
  IF n < 10 THEN <<DigitSeq[n + 1]>>
  ELSE NumToString(n \div 10) \o <<DigitSeq[(n % 10) + 1]>>

\* ------------------------------------------------------------------------
\* Program constants
\* ------------------------------------------------------------------------
MRZWidth        == 44   \* padEnd(44, "<")
MinCandidateLen == 28   \* l.length < 28
RatioNum        == 85   \* mrzChars / l.length > 0.85, as 100*mrzChars > 85*length
RatioDen        == 100
NameStart       == 5    \* line.substring(5)
CenturyPivot    == 50   \* yy > 50 ? 1900 + yy : 2000 + yy

\* ------------------------------------------------------------------------
\* fixMRZChar (lines 97-115)
\* ------------------------------------------------------------------------
\* variant: the entry 'Q': '0' left out of the table
digitFixesWithoutQ(ch) ==
  CASE ch \in {"O", "D"}      -> "0"
    [] ch \in {"I", "L", "l"} -> "1"
    [] ch \in {"Z", "z"}      -> "2"
    [] ch = "E"               -> "3"
    [] ch \in {"A", "H"}      -> "4"
    [] ch = "S"               -> "5"
    [] ch \in {"G", "b"}      -> "6"
    [] ch = "T"               -> "7"
    [] ch = "B"               -> "8"
    [] ch \in {"g", "q"}      -> "9"
    [] OTHER                  -> ch

digitFixes(ch) ==
  CASE ch \in {"O", "Q", "D"} -> "0"
    [] ch \in {"I", "L", "l"} -> "1"
    [] ch \in {"Z", "z"}      -> "2"
    [] ch = "E"               -> "3"
    [] ch \in {"A", "H"}      -> "4"
    [] ch = "S"               -> "5"
    [] ch \in {"G", "b"}      -> "6"
    [] ch = "T"               -> "7"
    [] ch = "B"               -> "8"
    [] ch \in {"g", "q"}      -> "9"
    [] OTHER                  -> ch

fixMRZChar(ch, expectDigit) == IF expectDigit THEN digitFixes(ch) ELSE ch

\* ------------------------------------------------------------------------
\* findNameEnd (lines 136-147): index after the last letter, 0 if none
\* ------------------------------------------------------------------------
findNameEnd(nameSection) ==
  LET letters == {i \in 1..Len(nameSection) : nameSection[i] \in Upper}
  IN  IF letters = {} THEN 0
      ELSE CHOOSE i \in letters : \A j \in letters : j <= i

\* ------------------------------------------------------------------------
\* cleanMRZLine1 (lines 117-135).  '<'.repeat(n) throws a RangeError when
\* n < 0, so the result is either a line or a thrown error.
\* ------------------------------------------------------------------------
Returned(v) == [threw |-> FALSE, name |-> "", value |-> v]
Thrown(n)   == [threw |-> TRUE,  name |-> n,  value |-> <<>>]

fixPosition1(line) ==
  IF line[2] # "<" THEN <<line[1]>> \o <<"<">> \o SubstringFrom(line, 2)
  ELSE line

cleanMRZLine1(raw) ==
  LET padded  == padEnd(raw, MRZWidth, "<")
      line    == fixPosition1(padded)
      nameEnd == findNameEnd(SubstringFrom(line, NameStart))
      fillLen == MRZWidth - NameStart - nameEnd
  IN  IF nameEnd > 0
        THEN IF fillLen < 0
               THEN Thrown("RangeError")
               ELSE Returned(Substring(line, 0, NameStart)
                             \o Substring(line, NameStart, NameStart + nameEnd)
                             \o Repeat("<", fillLen))
        ELSE Returned(line)

\* ------------------------------------------------------------------------
\* cleanMRZLine2 (lines 148-185)
\* ------------------------------------------------------------------------
\* variant: the first check digit looked for one position early
digitPositionsEarly == {8, 13, 14, 15, 16, 17, 18, 19, 21, 22, 23, 24, 25, 26, 27, 42, 43}

digitPositions == {9, 13, 14, 15, 16, 17, 18, 19, 21, 22, 23, 24, 25, 26, 27, 42, 43}

\* lines 165-169 (positions are 0-indexed, sequences 1-indexed)
fixDigitPositions(chars) ==
  [i \in 1..Len(chars) |->
     IF (i - 1) \in digitPositions /\ chars[i] \notin Digits
       THEN fixMRZChar(chars[i], TRUE) ELSE chars[i]]

\* /^[T7][UVW][R8]$/i
looksLikeTUR(nat) ==
  /\ Len(nat) = 3
  /\ nat[1] \in {"T", "t", "7"}
  /\ nat[2] \in {"U", "V", "W", "u", "v", "w"}
  /\ nat[3] \in {"R", "r", "8"}

\* lines 172-178
fixNationality(chars) ==
  LET nat == Substring(chars, 10, 13)
  IN  IF nat # <<"T", "U", "R">> /\ looksLikeTUR(nat)
        THEN SetCharAt(SetCharAt(SetCharAt(chars, 10, "T"), 11, "U"), 12, "R")
        ELSE chars

\* variant: only W is taken for M
fixGenderOnlyW(chars) ==
  IF chars[20 + 1] \notin {"M", "F", "<"} /\ chars[20 + 1] \in {"W"}
    THEN SetCharAt(chars, 20, "M") ELSE chars

\* lines 180-183
fixGender(chars) ==
  IF chars[20 + 1] \notin {"M", "F", "<"} /\ chars[20 + 1] \in {"W", "N", "H"}
    THEN SetCharAt(chars, 20, "M") ELSE chars

cleanMRZLine2(raw) ==
  fixGender(fixNationality(fixDigitPositions(padEnd(raw, MRZWidth, "<"))))

\* ------------------------------------------------------------------------
\* parseMRZ, candidate lines (lines 187-202)
\* ------------------------------------------------------------------------
\* line 187: split("\n").map(l => l.trim().replace(/\s/g, ""))
stripLine(l) == RemoveWhiteSpace(trim(l))

allLinesOf(ocrText) ==
  LET raw == split(ocrText) IN [i \in 1..Len(raw) |-> stripLine(raw[i])]

\* lines 190-194.  mrzChars / l.length > 0.85 is decided on the exact
\* quotient: for these lengths the double nearest to the quotient is above
\* the double 0.85 exactly when 100 * mrzChars > 85 * l.length.
\* variant: the ratio test as >= 0.85
isCandidateAtLeast(l) ==
  IF Len(l) < MinCandidateLen THEN FALSE
  ELSE LET mrzChars == Len(KeepOnly(l, IsMrzCharI))
       IN  RatioDen * mrzChars >= RatioNum * Len(l)

isCandidate(l) ==
  IF Len(l) < MinCandidateLen THEN FALSE
  ELSE LET mrzChars == Len(KeepOnly(l, IsMrzCharI))
       IN  RatioDen * mrzChars > RatioNum * Len(l)

candidatesOf(ocrText) == FilterSeq(allLinesOf(ocrText), isCandidate)

\* lines 201-202: toUpperCase().replace(/[^A-Z0-9<]/g, "")
rawLine(cand) == KeepOnly(toUpperCase(cand), IsMrzChar)

\* variant: line 1 taken from the first candidate
line1IndexFirst(cands) == 1

line1Index(cands) == Len(cands) - 1
line2Index(cands) == Len(cands)

\* ------------------------------------------------------------------------
\* parseMRZ, name region (lines 211-221)
\* ------------------------------------------------------------------------
\* length of the maximal run of [^A-Z] characters that starts at i
RECURSIVE NotUpperRunLen(_, _)
NotUpperRunLen(s, i) ==
  IF i > Len(s) \/ s[i] \in Upper THEN 0 ELSE 1 + NotUpperRunLen(s, i + 1)

\* length of the maximal run of '<' that starts at i
RECURSIVE FillerRunLen(_, _)
FillerRunLen(s, i) ==
  IF i > Len(s) \/ s[i] # "<" THEN 0 ELSE 1 + FillerRunLen(s, i + 1)

\* line 216: replace(/[^A-Z]{2,}/g, match => '<'.repeat(match.length))
RECURSIVE replaceFillerRuns(_, _)
replaceFillerRuns(s, i) ==
  IF i > Len(s) THEN <<>>
  ELSE LET n == NotUpperRunLen(s, i)
       IN  IF n >= 2 THEN Repeat("<", n) \o replaceFillerRuns(s, i + n)
           ELSE <<s[i]>> \o replaceFillerRuns(s, i + 1)

\* line 218: replace(/([A-Z])([^A-Z])([A-Z])/g, '$1<$3').  A global replace
\* resumes after the end of the previous match, so the letter that closes
\* one match cannot open the next.
RECURSIVE replaceSingleFillers(_, _)
replaceSingleFillers(s, i) ==
  IF i > Len(s) THEN <<>>
  ELSE IF /\ i + 2 <= Len(s)
          /\ s[i] \in Upper /\ s[i + 1] \notin Upper /\ s[i + 2] \in Upper
         THEN <<s[i], "<", s[i + 2]>> \o replaceSingleFillers(s, i + 3)
         ELSE <<s[i]>> \o replaceSingleFillers(s, i + 1)

cleanNameSection(nameSection) ==
  replaceSingleFillers(replaceFillerRuns(nameSection, 1), 1)

\* line 219: split(/<<+/)
RECURSIVE splitOnFiller(_, _, _)
splitOnFiller(s, i, cur) ==
  IF i > Len(s) THEN <<cur>>
  ELSE LET n == FillerRunLen(s, i)
       IN  IF n >= 2 THEN <<cur>> \o splitOnFiller(s, i + n, <<>>)
           ELSE splitOnFiller(s, i + 1, Append(cur, s[i]))

IsNameChar(c) == c \in Upper \/ c = " "

\* variant: filler dropped instead of turned into a space
nameTextNoSpace(part) == trim(KeepOnly(part, IsNameChar))

\* .replace(/</g, " ").replace(/[^A-Z ]/g, "").trim()
nameText(part) ==
  trim(KeepOnly([i \in 1..Len(part) |-> IF part[i] = "<" THEN " " ELSE part[i]],
                IsNameChar))

lastNameOf(nameParts)  == nameText(nameParts[1])
firstNameOf(nameParts) == nameText(Join(Tail(nameParts), <<" ">>))

\* ------------------------------------------------------------------------
\* yymmddToDate (lines 228-242)
\* ------------------------------------------------------------------------
IsDigit(c) == c \in Digits

\* variant: day accepted up to 30 only
yymmddToDateDay30(raw) ==
  IF raw = <<>> \/ Len(raw) # 6 THEN <<>>
  ELSE LET cleaned == KeepOnly(raw, IsDigit)
       IN  IF Len(cleaned) # 6 THEN <<>>
           ELSE LET yy   == parseInt(Substring(cleaned, 0, 2))
                    mm   == parseInt(Substring(cleaned, 2, 4))
                    dd   == parseInt(Substring(cleaned, 4, 6))
                    yyyy == IF yy > CenturyPivot THEN 1900 + yy ELSE 2000 + yy
                IN  IF mm < 1 \/ mm > 12 \/ dd < 1 \/ dd > 30 THEN <<>>
                    ELSE padStart(NumToString(dd), 2, "0") \o <<"/">>
                         \o padStart(NumToString(mm), 2, "0") \o <<"/">>
                         \o NumToString(yyyy)

yymmddToDate(raw) ==
  IF raw = <<>> \/ Len(raw) # 6 THEN <<>>
  ELSE LET cleaned == KeepOnly(raw, IsDigit)
       IN  IF Len(cleaned) # 6 THEN <<>>
           ELSE LET yy   == parseInt(Substring(cleaned, 0, 2))
                    mm   == parseInt(Substring(cleaned, 2, 4))
                    dd   == parseInt(Substring(cleaned, 4, 6))
                    yyyy == IF yy > CenturyPivot THEN 1900 + yy ELSE 2000 + yy
                IN  IF mm < 1 \/ mm > 12 \/ dd < 1 \/ dd > 31 THEN <<>>
                    ELSE padStart(NumToString(dd), 2, "0") \o <<"/">>
                         \o padStart(NumToString(mm), 2, "0") \o <<"/">>
                         \o NumToString(yyyy)

\* line 243
genderTextOf(gender) ==
  IF gender = <<"M">> THEN <<"E">>
  ELSE IF gender = <<"F">> THEN <<"K">> ELSE gender

NotFiller(c) == c # "<"

\* lines 223-253: the record built from the corrected lines
recordOf(line1, line2) ==
  LET nameParts == splitOnFiller(cleanNameSection(SubstringFrom(line1, NameStart)),
                                 1, <<>>)
  IN  [ first_name         |-> firstNameOf(nameParts),
        last_name          |-> lastNameOf(nameParts),
        gender             |-> genderTextOf(Substring(line2, 20, 21)),
        passport_number    |-> trim(KeepOnly(Substring(line2, 0, 9), NotFiller)),
        national_id_number |-> trim(KeepOnly(Substring(line2, 28, 42), NotFiller)),
        date_of_birth      |-> yymmddToDate(Substring(line2, 13, 19)),
        date_of_expiry     |-> yymmddToDate(Substring(line2, 21, 27)) ]

\* ------------------------------------------------------------------------
\* parseMRZ as a whole (lines 186-254): the record it returns or the error
\* it throws
\* ------------------------------------------------------------------------
NoRecord ==
  [ first_name |-> <<>>, last_name |-> <<>>, gender |-> <<>>,
    passport_number |-> <<>>, national_id_number |-> <<>>,
    date_of_birth |-> <<>>, date_of_expiry |-> <<>> ]

NoError == [name |-> "", head |-> "", count |-> 0, ocr |-> <<>>]

\* lines 196-198: new Error(`MRZ not found. ${n} candidate(s). OCR:\n${ocrText}`)
MRZNotFoundError(n, ocrText) ==
  [name |-> "Error", head |-> "MRZ not found.", count |-> n, ocr |-> ocrText]

\* '<'.repeat(negative) at line 131
RepeatRangeError ==
  [name |-> "RangeError", head |-> "Invalid count value", count |-> 0, ocr |-> <<>>]

parseMRZ(text) ==
  LET cands == candidatesOf(text)
  IN  IF Len(cands) < 2
        THEN [threw |-> TRUE, error |-> MRZNotFoundError(Len(cands), text),
              record |-> NoRecord]
        ELSE LET l1 == cleanMRZLine1(rawLine(cands[line1Index(cands)]))
                 l2 == cleanMRZLine2(rawLine(cands[line2Index(cands)]))
             IN  IF l1.threw
                   THEN [threw |-> TRUE, error |-> RepeatRangeError,
                         record |-> NoRecord]
                   ELSE [threw |-> FALSE, error |-> NoError,
                         record |-> recordOf(l1.value, l2)]

\* ------------------------------------------------------------------------
\* updateItem (lines 258-291)
\* ------------------------------------------------------------------------
\* s.split(sep) for a one-character separator
SepsUpTo(s, p, sep) == Cardinality({j \in 1..p : s[j] = sep})

SepAt(s, k, sep) ==
  IF k = 0 THEN 0
  ELSE IF k > SepsUpTo(s, Len(s), sep) THEN Len(s) + 1
  ELSE CHOOSE p \in 1..Len(s) : s[p] = sep /\ SepsUpTo(s, p, sep) = k

splitOn(s, sep) ==
  [k \in 1..(SepsUpTo(s, Len(s), sep) + 1) |->
     SubSeq(s, SepAt(s, k - 1, sep) + 1, SepAt(s, k, sep) - 1)]

\* /^\d{n}$/.test(s)
IsDigits(s, n) == Len(s) = n /\ \A i \in 1..Len(s) : s[i] \in Digits

\* the value null, which is no string
Null == <<"null">>

\* variant: years accepted up to 2030 only
toISOUpTo2030(ddmmyyyy) ==
  IF ddmmyyyy = <<>> \/ Len(ddmmyyyy) # 10 THEN Null
  ELSE LET parts == splitOn(ddmmyyyy, "/")
       IN  IF Len(parts) # 3 THEN Null
           ELSE IF ~IsDigits(parts[1], 2) \/ ~IsDigits(parts[2], 2)
                   \/ ~IsDigits(parts[3], 4) THEN Null
           ELSE LET d == parseInt(parts[1])
                    m == parseInt(parts[2])
                    y == parseInt(parts[3])
                IN  IF m < 1 \/ m > 12 \/ d < 1 \/ d > 31 \/ y < 1900 \/ y > 2030
                      THEN Null
                      ELSE parts[3] \o <<"-">> \o parts[2] \o <<"-">> \o parts[1]

\* lines 259-269
toISO(ddmmyyyy) ==
  IF ddmmyyyy = <<>> \/ Len(ddmmyyyy) # 10 THEN Null
  ELSE LET parts == splitOn(ddmmyyyy, "/")
       IN  IF Len(parts) # 3 THEN Null
           ELSE IF ~IsDigits(parts[1], 2) \/ ~IsDigits(parts[2], 2)
                   \/ ~IsDigits(parts[3], 4) THEN Null
           ELSE LET d == parseInt(parts[1])
                    m == parseInt(parts[2])
                    y == parseInt(parts[3])
                IN  IF m < 1 \/ m > 12 \/ d < 1 \/ d > 31 \/ y < 1900 \/ y > 2100
                      THEN Null
                      ELSE parts[3] \o <<"-">> \o parts[2] \o <<"-">> \o parts[1]

\* lines 13-21
COLUMN_MAP ==
  [ first_name         |-> "text_mm0qv8de",
    last_name          |-> "text_mm0qgd7q",
    gender             |-> "text_mm0qkzhv",
    passport_number    |-> "text_mm0qj5f2",
    national_id_number |-> "text_mm0qwvat",
    date_of_birth      |-> "date_mm0qj1wq",
    date_of_expiry     |-> "date_mm0q1gcb" ]

TextFields ==
  {"first_name", "last_name", "gender", "passport_number", "national_id_number"}

DateFields == {"date_of_birth", "date_of_expiry"}

\* variant: text fields written whether empty or not
writtenTextFieldsAll(data) == TextFields

\* lines 271-272: the text fields whose value is truthy (a non-empty string)
writtenTextFields(data) == {f \in TextFields : data[f] # <<>>}

\* lines 273-280: the date fields toISO accepts
writtenDateFields(data) == {f \in DateFields : toISO(data[f]) # Null}

\* lines 270-280: cv, from column id to the value written
columnValues(data) ==
  LET fields == writtenTextFields(data) \cup writtenDateFields(data)
      fieldOf(c) == CHOOSE f \in fields : COLUMN_MAP[f] = c
  IN  [c \in {COLUMN_MAP[f] : f \in fields} |->
         IF fieldOf(c) \in DateFields
           THEN [date |-> toISO(data[fieldOf(c)])]
           ELSE data[fieldOf(c)]]

\* line 282
NoValidDataError ==
  [name |-> "Error", head |-> "No valid data to update.", count |-> 0, ocr |-> <<>>]

\* ------------------------------------------------------------------------
\* State: one call of parseMRZ, observed at its statement boundaries, and
\* one call of a helper function on its own
\* ------------------------------------------------------------------------
VARIABLES
  input,        \* how the text under test was produced (test harness only)
  ocrText,      \* parseMRZ's argument
  pc,           \* position in parseMRZ
  candidates,   \* line 190
  line1raw,     \* line 201
  line2raw,     \* line 202
  line1,        \* line 206
  line2,        \* line 207
  cleanedNames, \* line 218
  result,       \* line 244, returned at line 253
  error,        \* the error thrown, NoError if none
  fn,           \* the helper called on its own
  arg,          \* its argument
  ret,          \* its result
  request,      \* the webhook request being handled (req.body)
  hook,         \* position in the webhook handler
  calls,        \* the steps the handler has called, in order
  written,      \* the column-value mutations sent to the board
  response      \* the response sent (res.status(...).json(...))

vars == <<input, ocrText, pc, candidates, line1raw, line2raw, line1, line2,
          cleanedNames, result, error, fn, arg, ret,
          request, hook, calls, written, response>>

hookVars == <<request, hook, calls, written, response>>

parseVars == <<candidates, line1raw, line2raw, line1, line2, cleanedNames,
               result, error>>

\* no request is being handled
NoRequest == [challenge |-> "", itemId |-> "", pulseId |-> "", boardId |-> ""]

NoResponse ==
  [status |-> 0, body |-> "", challenge |-> "", error |-> NoError, data |-> NoRecord]

HookIdle ==
  /\ request = NoRequest
  /\ hook = "idle"
  /\ calls = <<>>
  /\ written = <<>>
  /\ response = NoResponse

\* the state on entry of parseMRZ(text)
Entry(text) ==
  /\ ocrText = text
  /\ pc = "start"
  /\ candidates = <<>>
  /\ line1raw = <<>> /\ line2raw = <<>>
  /\ line1 = <<>> /\ line2 = <<>>
  /\ cleanedNames = <<>>
  /\ result = NoRecord
  /\ error = NoError
  /\ fn = "parseMRZ" /\ arg = <<>> /\ ret = Returned(<<>>)
  /\ HookIdle

\* lines 187-199
FindCandidates ==
  /\ pc = "start"
  /\ candidates' = candidatesOf(ocrText)
  /\ IF Len(candidates') < 2
       THEN /\ error' = MRZNotFoundError(Len(candidates'), ocrText)
            /\ pc' = "thrown"
       ELSE /\ error' = error
            /\ pc' = "candidates"
  /\ UNCHANGED <<input, ocrText, line1raw, line2raw, line1, line2,
                 cleanedNames, result, fn, arg, ret>>
  /\ UNCHANGED hookVars

\* lines 201-202
TakeLastTwo ==
  /\ pc = "candidates"
  /\ line1raw' = rawLine(candidates[line1Index(candidates)])
  /\ line2raw' = rawLine(candidates[line2Index(candidates)])
  /\ pc' = "raw"
  /\ UNCHANGED <<input, ocrText, candidates, line1, line2, cleanedNames,
                 result, error, fn, arg, ret>>
  /\ UNCHANGED hookVars

\* lines 206-207
ApplyCorrections ==
  /\ pc = "raw"
  /\ LET l1 == cleanMRZLine1(line1raw)
     IN  IF l1.threw
           THEN /\ error' = RepeatRangeError
                /\ pc' = "thrown"
                /\ UNCHANGED <<line1, line2>>
           ELSE /\ line1' = l1.value
                /\ line2' = cleanMRZLine2(line2raw)
                /\ pc' = "fixed"
                /\ error' = error
  /\ UNCHANGED <<input, ocrText, candidates, line1raw, line2raw, cleanedNames,
                 result, fn, arg, ret>>
  /\ UNCHANGED hookVars

\* lines 211-253
BuildRecord ==
  /\ pc = "fixed"
  /\ cleanedNames' = cleanNameSection(SubstringFrom(line1, NameStart))
  /\ result' = recordOf(line1, line2)
  /\ pc' = "returned"
  /\ UNCHANGED <<input, ocrText, candidates, line1raw, line2raw, line1, line2,
                 error, fn, arg, ret>>
  /\ UNCHANGED hookVars

Next == FindCandidates \/ TakeLastTwo \/ ApplyCorrections \/ BuildRecord

\* ------------------------------------------------------------------------
\* Texts under test: lines an OCR engine returns for a passport page
\* ------------------------------------------------------------------------
\* 'P<TURYILMAZ<<AHMET<<<<<<<<<<<<<<<<<<<<<<<<<<' (44 characters)
ExampleLine1 ==
  <<"P","<","T","U","R","Y","I","L","M","A","Z","<","<","A","H","M",
     "E","T","<","<","<","<","<","<","<","<","<","<","<","<","<","<",
     "<","<","<","<","<","<","<","<","<","<","<","<">>

\* 'U123456785TUR9001015M2501017<<<<<<<<<<<<<<06' (44 characters)
ExampleLine2 ==
  <<"U","1","2","3","4","5","6","7","8","5","T","U","R","9","0","0",
     "1","0","1","5","M","2","5","0","1","0","1","7","<","<","<","<",
     "<","<","<","<","<","<","<","<","<","<","0","6">>

\* 'U123456785TUR9001015M250101' (27 characters)
ShortLine ==
  <<"U","1","2","3","4","5","6","7","8","5","T","U","R","9","0","0",
     "1","0","1","5","M","2","5","0","1","0","1">>

\* 'P<TURKAYA<<MEHMET-.-<<<<<<<<<<<<<<<<<.-.' (40 characters)
RatioLine ==
  <<"P","<","T","U","R","K","A","Y","A","<","<","M","E","H","M","E",
     "T","-",".","-","<","<","<","<","<","<","<","<","<","<","<","<",
     "<","<","<","<","<",".","-",".">>

\* '\tp<tur demir<<ayse<<<<<<<<-.-. ' (31 characters)
NoisyLine ==
  <<"\t","p","<","t","u","r"," ","d","e","m","i","r","<","<","a","y",
     "s","e","<","<","<","<","<","<","<","<","-",".","-","."," ">>

\* 'P<TURYILMAZ<<AHMET<<<<<<<<<<<<<<<<<<<<<<<<<<K' (45 characters)
LongLine1 ==
  <<"P","<","T","U","R","Y","I","L","M","A","Z","<","<","A","H","M",
     "E","T","<","<","<","<","<","<","<","<","<","<","<","<","<","<",
     "<","<","<","<","<","<","<","<","<","<","<","<","K">>

\* 'U123456785TUR9001015M2501017<<<<<<<<<<<<<<06<<' (46 characters)
LongLine2 ==
  <<"U","1","2","3","4","5","6","7","8","5","T","U","R","9","0","0",
     "1","0","1","5","M","2","5","0","1","0","1","7","<","<","<","<",
     "<","<","<","<","<","<","<","<","<","<","0","6","<","<">>

\* 'A987654321TUR8407169F330528112345678901<<<24' (44 characters)
OtherLine2 ==
  <<"A","9","8","7","6","5","4","3","2","1","T","U","R","8","4","0",
     "7","1","6","9","F","3","3","0","5","2","8","1","1","2","3","4",
     "5","6","7","8","9","0","1","<","<","<","2","4">>

MaxLines == 3   \* lines of a text of the layout family

LinePool ==
  <<ExampleLine1, ExampleLine2, ShortLine, RatioLine, NoisyLine, LongLine1,
    LongLine2, OtherLine2>>

TextOf(lines) == Join(lines, <<"\n">>)

NoIdentity ==
  [ surname |-> <<>>, given |-> <<>>, sex |-> "", passport |-> <<>>,
    natid |-> <<>>, dob |-> <<0, 0, 0>>, expiry |-> <<0, 0, 0>> ]

Harness(family) ==
  [ family |-> family, id |-> NoIdentity, marks |-> {}, variant |-> 0,
    sexChar |-> "", lines |-> <<>>, name |-> <<>> ]

\* ------------------------------------------------------------------------
\* Identities and their TD3 encoding (the layout of spec section 4.4; check
\* digits by the ICAO 7-3-1 rule).  This is the test harness: it produces the
\* clean lines that are fed to parseMRZ.
\* ------------------------------------------------------------------------
YILMAZ == <<"Y","I","L","M","A","Z">>
VAN_DYK == <<"V","A","N"," ","D","Y","K">>
AHMET == <<"A","H","M","E","T">>
AYSE_NUR == <<"A","Y","S","E"," ","N","U","R">>
PassportU == <<"U","1","2","3","4","5","6","7","8">>
PassportShort == <<"A","B","1","2","3","4","5">>
NationalId == <<"1","2","3","4","5","6","7","8","9","0","1">>
DocPrefix == <<"P","<","T","U","R">>
TUR == <<"T","U","R">>

Surnames   == {YILMAZ, VAN_DYK}
GivenNames == {AHMET, AYSE_NUR, <<>>}
Sexes      == {"M", "F"}
Passports  == {PassportU, PassportShort}
NationalIds == {<<>>, NationalId}
BirthDates  == {<<1990, 1, 1>>, <<1984, 7, 16>>, <<1951, 12, 31>>, <<1950, 12, 31>>}
ExpiryDates == {<<2025, 1, 1>>, <<2033, 5, 28>>, <<2050, 10, 9>>, <<2051, 1, 1>>}

Identities ==
  [ surname : Surnames, given : GivenNames, sex : Sexes, passport : Passports,
    natid : NationalIds, dob : BirthDates, expiry : ExpiryDates ]

\* the identity of the end-to-end scenario
ExampleIdentity ==
  [ surname |-> YILMAZ, given |-> AHMET, sex |-> "M", passport |-> PassportU,
    natid |-> <<>>, dob |-> <<1990, 1, 1>>, expiry |-> <<2025, 1, 1>> ]

OtherIdentity ==
  [ surname |-> VAN_DYK, given |-> AYSE_NUR, sex |-> "F",
    passport |-> PassportShort, natid |-> NationalId,
    dob |-> <<1984, 7, 16>>, expiry |-> <<2033, 5, 28>> ]

TwoDigits(n) == padStart(NumToString(n), 2, "0")

EncodeName(n) == [i \in 1..Len(n) |-> IF n[i] = " " THEN "<" ELSE n[i]]

EncodeDate(d) == TwoDigits(d[1] % 100) \o TwoDigits(d[2]) \o TwoDigits(d[3])

CharValue(c) ==
  IF c \in Digits THEN DigitVal(c)
  ELSE IF c \in Upper THEN 9 + (CHOOSE i \in 1..26 : UpperSeq[i] = c)
  ELSE 0

RECURSIVE WeightedSum(_, _)
WeightedSum(s, i) ==
  IF i > Len(s) THEN 0
  ELSE CharValue(s[i]) * (<<7, 3, 1>>[((i - 1) % 3) + 1]) + WeightedSum(s, i + 1)

CheckDigit(s) == <<DigitSeq[(WeightedSum(s, 1) % 10) + 1]>>

EncodeLine1(id) ==
  padEnd(DocPrefix \o EncodeName(id.surname) \o <<"<", "<">> \o EncodeName(id.given),
         MRZWidth, "<")

EncodeLine2(id) ==
  LET pn  == padEnd(id.passport, 9, "<")
      dob == EncodeDate(id.dob)
      exp == EncodeDate(id.expiry)
      pid == padEnd(id.natid, 14, "<")
      a   == pn \o CheckDigit(pn)
      b   == dob \o CheckDigit(dob)
      c   == exp \o CheckDigit(exp)
      d   == pid \o CheckDigit(pid)
  IN  a \o TUR \o b \o <<id.sex>> \o c \o d \o CheckDigit(a \o b \o c \o d)

EncodeText(id) == TextOf(<<EncodeLine1(id), EncodeLine2(id)>>)

\* the date as the record is expected to show it
ShowDate(d) ==
  TwoDigits(d[3]) \o <<"/">> \o TwoDigits(d[2]) \o <<"/">> \o NumToString(d[1])

\* the record that stands for an identity
RecordOfIdentity(id) ==
  [ first_name         |-> id.given,
    last_name          |-> id.surname,
    gender             |-> IF id.sex = "M" THEN <<"E">> ELSE <<"K">>,
    passport_number    |-> id.passport,
    national_id_number |-> id.natid,
    date_of_birth      |-> ShowDate(id.dob),
    date_of_expiry     |-> ShowDate(id.expiry) ]

\* OCR noise on line 2: the letters the engine reads for a digit
Confusables(d) ==
  CASE d = "0" -> <<"O", "Q", "D">>
    [] d = "1" -> <<"I", "L">>
    [] d = "2" -> <<"Z">>
    [] d = "3" -> <<"E">>
    [] d = "4" -> <<"A", "H">>
    [] d = "5" -> <<"S">>
    [] d = "6" -> <<"G">>
    [] d = "7" -> <<"T">>
    [] d = "8" -> <<"B">>
    [] OTHER   -> <<>>

Misread(d, variant) ==
  IF Confusables(d) = <<>> THEN d
  ELSE Confusables(d)[((variant - 1) % Len(Confusables(d))) + 1]

\* birth date [13,19) and expiry date [21,27), 0-indexed
DatePositions == (13..18) \cup (21..26)

MaxNoise    == 2   \* misread date digits in one line
MaxVariants == 3   \* which of a digit's confusable letters is read

NoisyLine2(id, marks, variant, sexChar) ==
  LET clean == EncodeLine2(id)
  IN  [i \in 1..Len(clean) |->
         IF (i - 1) \in marks THEN Misread(clean[i], variant)
         ELSE IF i = 21 THEN sexChar
         ELSE clean[i]]

SexMisreads(sex) == IF sex = "M" THEN {"M", "W", "N", "H"} ELSE {sex}

InitClean ==
  \E id \in Identities :
    /\ input = [Harness("clean") EXCEPT !.id = id]
    /\ Entry(EncodeText(id))

InitExample ==
  /\ input = [Harness("example") EXCEPT !.id = ExampleIdentity]
  /\ Entry(TextOf(<<ExampleLine1, ExampleLine2>>))

InitNoise ==
  \E id \in {ExampleIdentity, OtherIdentity} :
    \E marks \in {m \in SUBSET DatePositions : Cardinality(m) <= MaxNoise} :
      \E variant \in 1..MaxVariants :
        \E sexChar \in SexMisreads(id.sex) :
          /\ input = [Harness("noise") EXCEPT !.id = id, !.marks = marks,
                        !.variant = variant, !.sexChar = sexChar]
          /\ Entry(TextOf(<<EncodeLine1(id),
                            NoisyLine2(id, marks, variant, sexChar)>>))

\* every text of at most MaxLines lines drawn from LinePool
InitLayout ==
  \E n \in 0..MaxLines :
    \E pick \in [1..n -> 1..Len(LinePool)] :
      /\ input = [Harness("layout") EXCEPT !.lines = pick]
      /\ Entry(TextOf([i \in 1..n |-> LinePool[pick[i]]]))

Spec == InitLayout /\ [][Next]_vars

\* ------------------------------------------------------------------------
\* Garbled lines: one misread character, and noise in the name region
\* ------------------------------------------------------------------------
MrzAlphabet == Upper \cup Digits \cup {"<"}

\* line with the character at 0-indexed position p read as c
ReadAs(line, p, c) == SetCharAt(line, p, c)

\* the sex position of line 2 read as any character of the alphabet
InitSex ==
  \E c \in MrzAlphabet \cup {"m", "f", "w"} :
    /\ input = [Harness("sex") EXCEPT !.id = ExampleIdentity, !.sexChar = c]
    /\ Entry(TextOf(<<ExampleLine1, ReadAs(ExampleLine2, 20, c)>>))

MaxNameLen   == 5   \* characters read in the name region
NameAlphabet == {"A", "1", "<"}

NameA1B2C == <<"A", "1", "B", "2", "C">>

NameRegions ==
  UNION {[1..n -> NameAlphabet] : n \in 0..MaxNameLen} \cup {NameA1B2C}

InitNames ==
  \E name \in NameRegions :
    /\ input = [Harness("names") EXCEPT !.name = name]
    /\ Entry(TextOf(<<padEnd(DocPrefix \o name, MRZWidth, "<"), ExampleLine2>>))

\* ------------------------------------------------------------------------
\* Helper functions called on their own
\* ------------------------------------------------------------------------
EntryFn(f, a) ==
  /\ input = Harness("call")
  /\ ocrText = <<>>
  /\ pc = "call"
  /\ candidates = <<>>
  /\ line1raw = <<>> /\ line2raw = <<>>
  /\ line1 = <<>> /\ line2 = <<>>
  /\ cleanedNames = <<>>
  /\ result = NoRecord
  /\ error = NoError
  /\ fn = f /\ arg = a /\ ret = Returned(<<>>)
  /\ HookIdle

MaxDateLen == 7   \* length of the strings given to yymmddToDate

DateChars ==
  << {"0", "4", "5", "9"}, {"0", "1", "5", "9"}, {"0", "1", "2"},
     {"0", "1", "2", "3", "9", "O"}, {"0", "1", "3", "<"}, {"0", "1", "2", "9"} >>

\* six characters drawn position by position, cut or extended to n characters
InitDate ==
  \E c1 \in DateChars[1], c2 \in DateChars[2], c3 \in DateChars[3],
     c4 \in DateChars[4], c5 \in DateChars[5], c6 \in DateChars[6] :
    \E n \in 0..MaxDateLen :
      EntryFn("yymmddToDate",
              SubSeq(<<c1, c2, c3, c4, c5, c6>> \o Repeat("1", n), 1, n))

GarbleChars == MrzAlphabet \cup {"l", "z", "b", "g", "q", "x"}

MaxCut == 2   \* characters cut from, or read past, the end of line 2

\* line 2 with one character misread, or with its nationality misread, and
\* lines shorter and longer than the TD3 width
Line2Args ==
  {ReadAs(l, p, c) : l \in {ExampleLine2}, p \in 0..(MRZWidth - 1), c \in GarbleChars}
  \cup {[i \in 1..MRZWidth |-> IF i \in 11..13 THEN nat[i - 10] ELSE OtherLine2[i]] :
          nat \in [1..3 -> {"T", "7", "U", "V", "R", "8", "r"}]}
  \cup {SubSeq(OtherLine2, 1, MRZWidth - k) : k \in 0..MaxCut}
  \cup {OtherLine2 \o Repeat("O", k) : k \in 0..MaxCut}

InitLine2 == \E a \in Line2Args : EntryFn("cleanMRZLine2", a)

CallYymmddToDate ==
  /\ pc = "call" /\ fn = "yymmddToDate"
  /\ ret' = Returned(yymmddToDate(arg))
  /\ pc' = "called"
  /\ UNCHANGED <<input, ocrText, fn, arg>>
  /\ UNCHANGED parseVars
  /\ UNCHANGED hookVars

CallCleanMRZLine2 ==
  /\ pc = "call" /\ fn = "cleanMRZLine2"
  /\ ret' = Returned(cleanMRZLine2(arg))
  /\ pc' = "called"
  /\ UNCHANGED <<input, ocrText, fn, arg>>
  /\ UNCHANGED parseVars
  /\ UNCHANGED hookVars

\* line 274: updateItem hands the date yymmddToDate returned to toISO
CallToISO ==
  /\ pc = "called" /\ fn = "yymmddToDate"
  /\ fn' = "toISO"
  /\ arg' = ret.value
  /\ ret' = Returned(toISO(ret.value))
  /\ pc' = "called"
  /\ UNCHANGED <<input, ocrText>>
  /\ UNCHANGED parseVars
  /\ UNCHANGED hookVars

NextFn == CallYymmddToDate \/ CallCleanMRZLine2 \/ CallToISO

SpecGarble == (InitSex \/ InitNames) /\ [][Next]_vars

SpecFn == (InitDate \/ InitLine2) /\ [][NextFn]_vars

SpecRoundTrip == (InitClean \/ InitExample \/ InitNoise) /\ [][Next]_vars

\* ------------------------------------------------------------------------
\* The webhook handler (lines 295-322), observed where it calls a step and
\* where an awaited step settles
\* ------------------------------------------------------------------------
Requests ==
  [ challenge : {"", "c0ffee"}, itemId : {"", "1001"}, pulseId : {"", "2002"},
    boardId : {"", "77"} ]

\* line 304: event?.itemId || event?.pulseId
itemIdOf(rq) == IF rq.itemId # "" THEN rq.itemId ELSE rq.pulseId

\* line 305: event?.boardId || "5092025623"
boardIdOf(rq) == IF rq.boardId # "" THEN rq.boardId ELSE "5092025623"

Call(f, item, text, data) == [fn |-> f, item |-> item, text |-> text, data |-> data]

ErrorOf(message) == [name |-> "Error", head |-> message, count |-> 0, ocr |-> <<>>]

\* lines 317-320: the catch block
Fail(err) ==
  /\ error' = err
  /\ response' = [NoResponse EXCEPT !.status = 500, !.body = "error", !.error = err]
  /\ hook' = "responded"

\* the ways getImageUrl throws (lines 35, 37, 54, 64, 70, 73)
LookupFailures ==
  {"Monday API", "Monday GQL", "Item not found.", "No files on item",
   "No public URLs for assets", "No public URL"}

MaxHookLines == 2   \* lines of a layout text the OCR step returns

\* a line of fillers only
BlankLine == Repeat("<", MRZWidth)

\* texts the OCR step returns: the layout family, clean pages, and pages
\* whose second line has unreadable dates or nothing but fillers
HookTexts ==
  UNION {{TextOf([i \in 1..n |-> LinePool[pick[i]]]) :
            pick \in [1..n -> 1..Len(LinePool)]} : n \in 0..MaxHookLines}

HookPages ==
  {EncodeText(id) : id \in {ExampleIdentity, OtherIdentity}}
  \cup {TextOf(<<l1, l2>>) :
          l1 \in {ExampleLine1, BlankLine, padEnd(DocPrefix, MRZWidth, "<")},
          l2 \in {BlankLine, ReadAs(ExampleLine2, 13, "X"),
                  ReadAs(ExampleLine2, 21, "X"),
                  ReadAs(ReadAs(ExampleLine2, 13, "X"), 21, "X"),
                  ReadAs(BlankLine, 20, "0")}}
  \cup {TextOf(<<ExampleLine1, ReadAs(ExampleLine2, 20, c)>>) : c \in MrzAlphabet}

InitWebhook ==
  \E rq \in Requests :
    /\ input = Harness("webhook")
    /\ request = rq
    /\ hook = "received"
    /\ calls = <<>>
    /\ written = <<>>
    /\ response = NoResponse
    /\ ocrText = <<>>
    /\ pc = "handler"
    /\ candidates = <<>>
    /\ line1raw = <<>> /\ line2raw = <<>>
    /\ line1 = <<>> /\ line2 = <<>>
    /\ cleanedNames = <<>>
    /\ result = NoRecord
    /\ error = NoError
    /\ fn = "webhook" /\ arg = <<>> /\ ret = Returned(<<>>)

innerVars == <<input, pc, candidates, line1raw, line2raw, line1, line2,
               cleanedNames, fn, arg, ret>>

\* lines 296-308: the challenge handshake, the missing item id, or the call
\* of getImageUrl
Receive ==
  /\ hook = "received"
  /\ IF request.challenge # ""
       THEN /\ response' = [NoResponse EXCEPT !.status = 200, !.body = "challenge",
                                              !.challenge = request.challenge]
            /\ hook' = "responded"
            /\ calls' = calls
       ELSE IF itemIdOf(request) = ""
         THEN /\ response' = [NoResponse EXCEPT !.status = 400,
                                                !.body = "Missing itemId"]
              /\ hook' = "responded"
              /\ calls' = calls
         ELSE /\ calls' = Append(calls, Call("getImageUrl", itemIdOf(request),
                                             <<>>, NoRecord))
              /\ hook' = "lookup"
              /\ response' = response
  /\ UNCHANGED <<request, written, ocrText, result, error>>
  /\ UNCHANGED innerVars

\* lines 308-310: getImageUrl settles; on success ocrImage is called
LookupSettles ==
  /\ hook = "lookup"
  /\ \/ /\ calls' = Append(calls, Call("ocrImage", itemIdOf(request), <<>>, NoRecord))
        /\ hook' = "ocr"
        /\ UNCHANGED <<response, error>>
     \/ \E f \in LookupFailures :
          /\ Fail(ErrorOf(f))
          /\ calls' = calls
  /\ UNCHANGED <<request, written, ocrText, result>>
  /\ UNCHANGED innerVars

\* line 310: ocrImage settles with the text read, or rejects
OcrSettles ==
  /\ hook = "ocr"
  /\ \/ \E text \in HookTexts \cup HookPages :
          /\ ocrText' = text
          /\ hook' = "parse"
          /\ UNCHANGED <<response, error>>
     \/ /\ Fail(ErrorOf("Tesseract"))
        /\ ocrText' = ocrText
  /\ UNCHANGED <<request, calls, written, result>>
  /\ UNCHANGED innerVars

\* variant: a failure of parseMRZ is not propagated, the handler goes on
\* with an empty record
CallParseMRZSwallowing ==
  /\ hook = "parse"
  /\ calls' = Append(calls, Call("parseMRZ", "", ocrText, NoRecord))
  /\ LET r == parseMRZ(ocrText)
     IN  /\ result' = IF r.threw THEN NoRecord ELSE r.record
         /\ hook' = "update"
         /\ UNCHANGED <<response, error>>
  /\ UNCHANGED <<request, written, ocrText>>
  /\ UNCHANGED innerVars

\* line 312
CallParseMRZ ==
  /\ hook = "parse"
  /\ calls' = Append(calls, Call("parseMRZ", "", ocrText, NoRecord))
  /\ LET r == parseMRZ(ocrText)
     IN  IF r.threw
           THEN /\ Fail(r.error)
                /\ result' = result
           ELSE /\ result' = r.record
                /\ hook' = "update"
                /\ UNCHANGED <<response, error>>
  /\ UNCHANGED <<request, written, ocrText>>
  /\ UNCHANGED innerVars

\* line 314, lines 258-290: updateItem up to the request it sends
CallUpdateItem ==
  /\ hook = "update"
  /\ calls' = Append(calls, Call("updateItem", itemIdOf(request), <<>>, result))
  /\ LET cv == columnValues(result)
     IN  IF DOMAIN cv = {}
           THEN /\ Fail(NoValidDataError)
                /\ written' = written
           ELSE /\ written' = Append(written, [b |-> boardIdOf(request),
                                               i |-> itemIdOf(request), v |-> cv])
                /\ hook' = "writing"
                /\ UNCHANGED <<response, error>>
  /\ UNCHANGED <<request, ocrText, result>>
  /\ UNCHANGED innerVars

\* lines 285-290 and 314-316: the mutation settles; on success the handler
\* answers with the record
WriteSettles ==
  /\ hook = "writing"
  /\ \/ /\ response' = [NoResponse EXCEPT !.status = 200, !.body = "success",
                                          !.data = result]
        /\ hook' = "responded"
        /\ error' = error
     \/ \E f \in {"Monday API", "Monday GQL"} : Fail(ErrorOf(f))
  /\ UNCHANGED <<request, calls, written, ocrText, result>>
  /\ UNCHANGED innerVars

NextWebhook ==
  \/ Receive
  \/ LookupSettles
  \/ OcrSettles
  \/ CallParseMRZ
  \/ CallUpdateItem
  \/ WriteSettles

SpecWebhook == InitWebhook /\ [][NextWebhook]_vars

\* ------------------------------------------------------------------------
\* Properties
\* ------------------------------------------------------------------------
\* The qualifying lines as the specification words them: a line, trimmed and
\* with its white space removed, of length >= 28 of which more than 85 % are
\* characters of A-Z, a-z, 0-9, '<'.
ConformingCount(l) == Cardinality({i \in 1..Len(l) : IsMrzCharI(l[i])})

Qualifies(l) ==
  /\ Len(l) >= MinCandidateLen
  /\ RatioDen * ConformingCount(l) > RatioNum * Len(l)

QualifyingLines(text) == SelectSeq(allLinesOf(text), Qualifies)

Finished == pc \in {"returned", "thrown"}

\* C1: a text with fewer than 2 qualifying lines ends parseMRZ in the "MRZ
\* not found" error, no record is returned, and the error carries the number
\* of qualifying lines found and the raw text unmodified.
C1_NotFoundCarriesCountAndText ==
  (pc # "start" /\ Len(QualifyingLines(ocrText)) < 2) =>
     /\ pc = "thrown"
     /\ result = NoRecord
     /\ error.name = "Error"
     /\ error.head = "MRZ not found."
     /\ error.count = Len(QualifyingLines(ocrText))
     /\ error.count \in {0, 1}
     /\ error.ocr = ocrText

\* a text whose only qualifying line is the last one, after a line whose
\* ratio is exactly 0.85: one candidate is reported
C1_Witness ==
  /\ pc = "thrown"
  /\ input.lines = <<4, 2>>
  /\ error.count = 1
  /\ error.ocr = TextOf(<<RatioLine, ExampleLine2>>)

\* C2: with at least 2 qualifying lines parseMRZ returns a record of the 7
\* fields and never throws.
C2_OnlyNotFoundFails ==
  (Finished /\ Len(QualifyingLines(ocrText)) >= 2) =>
     /\ pc = "returned"
     /\ error = NoError
     /\ DOMAIN result = {"first_name", "last_name", "gender", "passport_number",
                         "national_id_number", "date_of_birth", "date_of_expiry"}

\* C3: the normalized lines 1 and 2 are exactly 44 characters long.
C3_NormalizedWidth ==
  (pc \in {"fixed", "returned"}) =>
     Len(line1) = MRZWidth /\ Len(line2) = MRZWidth

\* C4 as stated: every identity encoded as two clean TD3 lines is returned
\* unchanged, whatever its years of birth and expiry.
C4_RoundTripEveryYear ==
  (Finished /\ input.family \in {"clean", "example"}) =>
     pc = "returned" /\ result = RecordOfIdentity(input.id)

\* years a two-digit year is read back into: 1951..2050
InPivotWindow(d) ==
  d[1] >= 1900 + CenturyPivot + 1 /\ d[1] <= 2000 + CenturyPivot

ExampleRecord ==
  [ first_name         |-> <<"A", "H", "M", "E", "T">>,
    last_name          |-> <<"Y", "I", "L", "M", "A", "Z">>,
    gender             |-> <<"E">>,
    passport_number    |-> <<"U", "1", "2", "3", "4", "5", "6", "7", "8">>,
    national_id_number |-> <<>>,
    date_of_birth      |-> <<"0", "1", "/", "0", "1", "/", "1", "9", "9", "0">>,
    date_of_expiry     |-> <<"0", "1", "/", "0", "1", "/", "2", "0", "2", "5">> ]

\* C4 (amended): every identity whose years of birth and expiry lie in
\* 1951..2050, encoded as two clean TD3 lines, is returned unchanged; the
\* lines of the end-to-end scenario give YILMAZ, AHMET, E, U12345678, no
\* national ID, 01/01/1990 and 01/01/2025.
C4_RoundTripInWindow ==
  /\ (Finished /\ input.family \in {"clean", "example"}
        /\ InPivotWindow(input.id.dob) /\ InPivotWindow(input.id.expiry)) =>
       pc = "returned" /\ result = RecordOfIdentity(input.id)
  /\ (Finished /\ input.family = "example") =>
       pc = "returned" /\ result = ExampleRecord

\* an identity with a two-word given name, a short passport number and a
\* national ID, expiring in 2050, comes back unchanged
C4_Witness ==
  /\ pc = "returned"
  /\ input.family = "clean"
  /\ input.id.given = AYSE_NUR /\ input.id.passport = PassportShort
  /\ input.id.natid = NationalId /\ input.id.sex = "F"
  /\ input.id.expiry = <<2050, 10, 9>>
  /\ result.first_name = AYSE_NUR
  /\ result.gender = <<"K">>
  /\ result.date_of_expiry = <<"0", "9", "/", "1", "0", "/", "2", "0", "5", "0">>

\* C5: line 2 with date digits read as their confusable letters, and M read
\* as W, N or H, gives the record of the clean line 2.
C5_NoiseTolerance ==
  (Finished /\ input.family = "noise") =>
     LET clean == parseMRZ(EncodeText(input.id))
     IN  /\ pc = "returned"
         /\ ~clean.threw
         /\ result = clean.record

\* birth date read as 9O0101 and sex read as W
C5_Witness ==
  /\ pc = "returned"
  /\ input.family = "noise"
  /\ input.id = ExampleIdentity
  /\ input.marks = {14} /\ input.sexChar = "W"
  /\ Substring(line2raw, 13, 19) = <<"9", "O", "0", "1", "0", "1">>
  /\ Substring(line2raw, 20, 21) = <<"W">>
  /\ result.date_of_birth = ExampleRecord.date_of_birth
  /\ result.gender = <<"E">>

\* C6: yymmddToDate gives "" unless its argument is 6 digits with month in
\* 1..12 and day in 1..31, and then DD/MM/YYYY with YYYY = 19YY for YY > 50
\* and 20YY for YY <= 50.
C6_ExpectedDate(raw) ==
  IF Len(raw) = 6 /\ \A i \in 1..6 : raw[i] \in Digits
    THEN LET yy == 10 * DigitVal(raw[1]) + DigitVal(raw[2])
             mm == 10 * DigitVal(raw[3]) + DigitVal(raw[4])
             dd == 10 * DigitVal(raw[5]) + DigitVal(raw[6])
         IN  IF mm \in 1..12 /\ dd \in 1..31
               THEN <<raw[5], raw[6], "/", raw[3], raw[4], "/">>
                    \o (IF yy > 50 THEN <<"1", "9">> ELSE <<"2", "0">>)
                    \o <<raw[1], raw[2]>>
               ELSE <<>>
    ELSE <<>>

C6_DateFormat ==
  (pc = "called" /\ fn = "yymmddToDate") =>
     /\ ~ret.threw
     /\ ret.value = C6_ExpectedDate(arg)
     /\ arg = <<"9", "9", "0", "1", "0", "1">> =>
          ret.value = <<"0", "1", "/", "0", "1", "/", "1", "9", "9", "9">>
     /\ arg = <<"0", "5", "0", "1", "0", "1">> =>
          ret.value = <<"0", "1", "/", "0", "1", "/", "2", "0", "0", "5">>
     /\ (Len(arg) = 6 /\ ret.value # <<>> /\ arg[1] = "5" /\ arg[2] = "0") =>
          SubSeq(ret.value, 7, 10) = <<"2", "0", "5", "0">>

\* the pivot year itself, on the last day a month can have
C6_Witness ==
  /\ pc = "called" /\ fn = "yymmddToDate"
  /\ arg = <<"5", "0", "1", "2", "3", "1">>
  /\ ret.value = <<"3", "1", "/", "1", "2", "/", "2", "0", "5", "0">>

\* C7: the gender field is E when position 20 of line 2 holds M, W, N or H,
\* K when it holds F, and the character itself otherwise; it is always one
\* character.
C7_GenderMapping ==
  (pc = "returned") =>
     LET c == padEnd(line2raw, MRZWidth, "<")[21]
     IN  /\ Len(result.gender) = 1
         /\ result.gender = IF c \in {"M", "W", "N", "H"} THEN <<"E">>
                            ELSE IF c = "F" THEN <<"K">>
                            ELSE <<c>>

\* sex read as H gives E
C7_Witness ==
  /\ pc = "returned"
  /\ input.family = "sex" /\ input.sexChar = "H"
  /\ line2raw[21] = "H"
  /\ result.gender = <<"E">>

\* C8: with k >= 2 qualifying lines, line 1 comes from the (k-1)-th and
\* line 2 from the k-th, upper-cased and reduced to A-Z, 0-9, '<'; the
\* outcome is that of the text made of those two lines alone.
C8_LastTwoCandidates ==
  LET q == QualifyingLines(ocrText)
      k == Len(q)
  IN  (pc \notin {"start", "candidates"} /\ k >= 2) =>
        /\ line1raw = KeepOnly(toUpperCase(q[k - 1]), IsMrzChar)
        /\ line2raw = KeepOnly(toUpperCase(q[k]), IsMrzChar)
        /\ \A i \in 1..Len(line1raw) : line1raw[i] \in MrzAlphabet
        /\ \A i \in 1..Len(line2raw) : line2raw[i] \in MrzAlphabet
        /\ Finished =>
             LET alone == parseMRZ(TextOf(<<q[k - 1], q[k]>>))
             IN  /\ alone.threw = (pc = "thrown")
                 /\ alone.error.name = error.name
                 /\ alone.record = result

\* three qualifying lines, the first of another passport, the second read in
\* lower case with white space and stray marks: the record is that of the
\* last two
C8_Witness ==
  /\ pc = "returned"
  /\ input.lines = <<8, 5, 2>>
  /\ Len(candidates) = 3
  /\ Len(line1raw) = 24
  /\ result.last_name = <<"D", "E", "M", "I", "R">>
  /\ result.passport_number = PassportU

\* C9: cleanMRZLine2 alters characters only at the digit offsets, the
\* nationality offsets and the sex offset; at a digit offset a letter of the
\* table becomes its digit, a digit or an unmapped character stays; the
\* passport-number and national-ID ranges are never altered.
C9_DigitOffsets == {9, 13, 14, 15, 16, 17, 18, 19, 21, 22, 23, 24, 25, 26, 27, 42, 43}

C9_TableImage(c) ==
  CASE c \in {"O", "Q", "D"} -> "0"
    [] c \in {"I", "L"}      -> "1"
    [] c = "Z"               -> "2"
    [] c = "E"               -> "3"
    [] c \in {"A", "H"}      -> "4"
    [] c = "S"               -> "5"
    [] c = "G"               -> "6"
    [] c = "T"               -> "7"
    [] c = "B"               -> "8"

C9_Mapped == {"O", "Q", "D", "I", "L", "Z", "E", "A", "H", "S", "G", "T", "B"}

C9_MappedLower == {"l", "z", "b", "g", "q"}

C9_CorrectorFrame ==
  (pc = "called" /\ fn = "cleanMRZLine2") =>
     LET in  == padEnd(arg, MRZWidth, "<")
         out == ret.value
     IN  /\ Len(out) = Len(in)
         /\ \A i \in 1..Len(in) :
              /\ out[i] # in[i] =>
                   (i - 1) \in C9_DigitOffsets \cup {10, 11, 12, 20}
              /\ ((i - 1) \in C9_DigitOffsets /\ in[i] \in C9_Mapped) =>
                   out[i] = C9_TableImage(in[i])
              /\ ((i - 1) \in C9_DigitOffsets
                    /\ in[i] \notin C9_Mapped \cup C9_MappedLower) =>
                   out[i] = in[i]
              /\ ((i - 1) \in (0..8) \cup (28..41)) => out[i] = in[i]

\* a B read in the last check digit becomes 8 and nothing else moves
C9_Witness ==
  /\ pc = "called" /\ fn = "cleanMRZLine2"
  /\ arg = ReadAs(ExampleLine2, 43, "B")
  /\ ret.value = ReadAs(ExampleLine2, 43, "8")

\* C10: in the name region every single non-alphabetic character that stands
\* between two letters has been rewritten to '<' by the name-region
\* correction.
C10_EverySingleFillerRewritten ==
  (pc = "returned") =>
     LET ns == SubstringFrom(line1, NameStart)
     IN  \A i \in 2..(Len(ns) - 1) :
           (ns[i] \notin Upper /\ ns[i - 1] \in Upper /\ ns[i + 1] \in Upper) =>
              cleanedNames[i] = "<"

\* ------------------------------------------------------------------------
\* C12: every non-empty date yymmddToDate returns is ten characters
\* DD/MM/YYYY with DD in 01..31, MM in 01..12 and YYYY in 1951..2050, and
\* toISO turns it into YYYY-MM-DD with the same day, month and year, never
\* into null; toISO answers null, so that the column is skipped, only for
\* the empty string.
\* ------------------------------------------------------------------------
C12_ReturnedDatesAccepted ==
  (pc = "called" /\ fn = "toISO") =>
    IF arg = <<>>
      THEN ret.value = Null
      ELSE /\ Len(arg) = 10
           /\ arg[3] = "/" /\ arg[6] = "/"
           /\ IsDigits(SubSeq(arg, 1, 2), 2)
           /\ IsDigits(SubSeq(arg, 4, 5), 2)
           /\ IsDigits(SubSeq(arg, 7, 10), 4)
           /\ parseInt(SubSeq(arg, 1, 2)) \in 1..31
           /\ parseInt(SubSeq(arg, 4, 5)) \in 1..12
           /\ parseInt(SubSeq(arg, 7, 10)) \in 1951..2050
           /\ ret.value # Null
           /\ ret.value = SubSeq(arg, 7, 10) \o <<"-">> \o SubSeq(arg, 4, 5)
                            \o <<"-">> \o SubSeq(arg, 1, 2)

\* the last day the record can carry, 31 December 2050, reaches the board
C12_Witness ==
  /\ pc = "called" /\ fn = "toISO"
  /\ arg = <<"3", "1", "/", "1", "2", "/", "2", "0", "5", "0">>
  /\ ret.value = <<"2", "0", "5", "0", "-", "1", "2", "-", "3", "1">>

\* ------------------------------------------------------------------------
\* C11: one webhook invocation calls its steps in the order image lookup,
\* OCR, parseMRZ, updateItem; updateItem is called at most once, only after
\* parseMRZ returned a record and with that record; when lookup, OCR or
\* parseMRZ fails no write is issued and the response is 500 with the
\* error's message; the success response (200) is sent only once the write
\* has completed.
\* ------------------------------------------------------------------------
StepOrder == <<"getImageUrl", "ocrImage", "parseMRZ", "updateItem">>

C11_State ==
  LET n == Len(calls)
  IN  /\ n <= Len(StepOrder)
      /\ \A i \in 1..n : calls[i].fn = StepOrder[i]
      /\ Len(written) <= 1
      /\ n = 4 =>
           /\ ~parseMRZ(ocrText).threw
           /\ calls[3].text = ocrText
           /\ calls[4].data = parseMRZ(ocrText).record
      /\ written # <<>> =>
           /\ n = 4
           /\ written[1].i = itemIdOf(request)
           /\ written[1].b = boardIdOf(request)
           /\ DOMAIN written[1].v = DOMAIN columnValues(calls[4].data)
      /\ (hook = "responded" /\ n \in 1..3) =>
           /\ written = <<>>
           /\ response.status = 500
           /\ response.error # NoError
           /\ response.error = error
           /\ n = 3 => /\ parseMRZ(ocrText).threw
                       /\ response.error = parseMRZ(ocrText).error
      /\ response.status = 200 => response.body \in {"success", "challenge"}
      /\ response.body = "success" =>
           /\ response.status = 200
           /\ hook = "responded"
           /\ Len(written) = 1
           /\ response.data = calls[4].data

C11_Step ==
  /\ written' # written =>
       /\ hook = "update"
       /\ written = <<>>
       /\ calls'[Len(calls')].fn = "updateItem"
  /\ (response'.body = "success" /\ response.body # "success") =>
       /\ hook = "writing"
       /\ Len(written) = 1
       /\ written' = written
  /\ response # NoResponse => UNCHANGED <<response, calls, written>>

C11_HandlerOrder == []C11_State /\ [][C11_Step]_vars

\* a page was read, its record written, and the handler answered 200
C11_Witness ==
  /\ hook = "responded"
  /\ response.status = 200 /\ response.body = "success"
  /\ Len(calls) = 4
  /\ Len(written) = 1
  /\ response.data = RecordOfIdentity(OtherIdentity)

\* ------------------------------------------------------------------------
\* C13: for every record parseMRZ returns, updateItem builds a non-empty
\* set of column values: gender is one character, so its column is always
\* there, and 'No valid data to update.' is never raised; a field whose
\* value is the empty string has no column in the write.
\* ------------------------------------------------------------------------
C13_NeverEmptyWrite ==
  /\ error # NoValidDataError
  /\ \A k \in 1..Len(calls) :
       calls[k].fn = "updateItem" =>
         LET data == calls[k].data
         IN  /\ Len(data.gender) = 1
             /\ Len(written) = 1
             /\ DOMAIN written[1].v # {}
             /\ COLUMN_MAP["gender"] \in DOMAIN written[1].v
             /\ written[1].v[COLUMN_MAP["gender"]] = data.gender
             /\ \A f \in TextFields \cup DateFields :
                  data[f] = <<>> => COLUMN_MAP[f] \notin DOMAIN written[1].v
             /\ \A f \in TextFields :
                  data[f] # <<>> => /\ COLUMN_MAP[f] \in DOMAIN written[1].v
                                    /\ written[1].v[COLUMN_MAP[f]] = data[f]

\* a record with nothing but its gender: the write has the gender column only
C13_Witness ==
  /\ Len(calls) = 4
  /\ calls[4].data.passport_number = <<>>
  /\ calls[4].data.date_of_birth = <<>>
  /\ Len(written) = 1
  /\ DOMAIN written[1].v = {COLUMN_MAP["gender"]}

====
